---- MODULE Spec2Model ----
(***************************************************************************)
(* Model of example_policies/data_ops/delete_blacklisted_episodes.py:      *)
(* delete_blacklisted_episodes copies a dataset, deletes the artifacts of  *)
(* the blacklisted episodes in the copy, renumbers the remaining episodes  *)
(* densely and rewrites the metadata tables.                               *)
(*                                                                         *)
(* A directory tree is a record: the shard directory and the media         *)
(* directory are functions from entry name to the content found there      *)
(* (content is tagged with the index of the episode it was recorded for),  *)
(* and meta holds the metadata tables.                                     *)
(***************************************************************************)
EXTENDS Integers, Sequences, FiniteSets, TLC

VARIABLES fs, pc, dry_run, meta_manager, bi, deleted_episodes,
          remaining_episodes, old_to_new_mapping, ri, error, report, lastDry

vars == <<fs, pc, dry_run, meta_manager, bi, deleted_episodes,
          remaining_episodes, old_to_new_mapping, ri, error, report, lastDry>>

----------------------------------------------------------------------------
(* Bounds *)

\* episode indices of the model are 0 .. NumIdx-1
NumIdx == 3
\* number of indices at which the media directory differs from the shard
MaxMediaDiff == 1
\* number of statistics records that belong to no listed episode
MaxStale == 1

Idx == 0 .. (NumIdx - 1)

----------------------------------------------------------------------------
(* Values *)

NoFile == -1
None   == "none"

\* f"{idx:06d}" and str(idx), for the indices of the model
Digits == <<"0", "1", "2", "3", "4", "5", "6", "7", "8", "9">>
Fmt06d(idx) == <<"000000", "000001", "000002", "000003", "000004",
                 "000005", "000006", "000007", "000008", "000009">>[idx + 1]
str(idx) == Digits[idx + 1]

\* entry names of the two artifact directories, one slot per index
Names == {Fmt06d(i) : i \in Idx}

\* frame count recorded for the episode ingested with index i; the values
\* are chosen so that two different sets of episodes have different sums
FrameCount(i) == 2 ^ i

----------------------------------------------------------------------------
(* Pure helpers *)

RECURSIVE SumLength(_)
SumLength(eps) ==
    IF eps = <<>> THEN 0 ELSE Head(eps).length + SumLength(Tail(eps))

Range(s) == {s[k] : k \in DOMAIN s}

RECURSIVE SetToSeqAsc(_)
SetToSeqAsc(S) ==
    IF S = {} THEN <<>>
    ELSE LET m == CHOOSE x \in S : \A y \in S : x <= y
         IN  <<m>> \o SetToSeqAsc(S \ {m})

Reverse(s) == [k \in DOMAIN s |-> s[Len(s) + 1 - k]]

\* list.sort(key=episode_index): stable insertion into a sorted prefix
RECURSIVE InsertSorted(_, _)
InsertSorted(e, sorted) ==
    IF sorted = <<>> THEN <<e>>
    ELSE IF e.episode_index < Head(sorted).episode_index
         THEN <<e>> \o sorted
         ELSE <<Head(sorted)>> \o InsertSorted(e, Tail(sorted))

RECURSIVE SortByIndex(_)
SortByIndex(eps) ==
    IF eps = <<>> THEN <<>>
    ELSE InsertSorted(eps[Len(eps)], SortByIndex(SubSeq(eps, 1, Len(eps) - 1)))

----------------------------------------------------------------------------
(* Metadata store (MetaManager) *)

EmptyMeta ==
    [blacklist |-> <<>>, episodes |-> <<>>, stats |-> <<>>,
     episode_mapping |-> <<>>, info |-> <<>>]

AbsentDir ==
    [exists |-> FALSE,
     shard  |-> [n \in Names |-> NoFile],
     media  |-> [n \in Names |-> NoFile],
     meta   |-> EmptyMeta]

\* MetaManager.load_from_files: the tables as they are on disk
load_from_files(dir) == dir.meta

\* MetaManager.save: the tables on disk become the in-memory tables
save(dir, mm) == [dir EXCEPT !.meta = mm]

\* shutil.copytree(dataset_path, output_path)
copytree(dir) == dir

----------------------------------------------------------------------------
(* delete_blacklisted_episodes, lines 25-107 *)

\* variant: the live run works on the source
WorkingPathInPlace(dry) == "dataset_path"

\* line 59
WorkingPath(dry) == IF ~dry THEN "output_path" ELSE "dataset_path"

\* lines 70-76: the artifacts of episode_idx that exist
FilesToDelete(dir, episode_idx) ==
    (IF dir.shard[Fmt06d(episode_idx)] # NoFile THEN {"shard"} ELSE {}) \cup
    (IF dir.media[Fmt06d(episode_idx)] # NoFile THEN {"media"} ELSE {})

\* variant: the deletion is carried out in a dry run too
DeleteArtifactsAlways(dir, episode_idx, dry) ==
    [dir EXCEPT !.shard[Fmt06d(episode_idx)] = NoFile,
                !.media[Fmt06d(episode_idx)] = NoFile]

\* variant: the media directory is left behind
DeleteArtifactsShardOnly(dir, episode_idx, dry) ==
    IF dry THEN dir
    ELSE [dir EXCEPT !.shard[Fmt06d(episode_idx)] = NoFile]

\* lines 78-91: unlink the shard, rmtree the media directory
DeleteArtifacts(dir, episode_idx, dry) ==
    IF dry THEN dir
    ELSE [dir EXCEPT !.shard[Fmt06d(episode_idx)] = NoFile,
                     !.media[Fmt06d(episode_idx)] = NoFile]

\* line 93: only an episode whose artifacts were deleted in a live run
DeletedAfter(deleted, episode_idx, files, dry) ==
    IF files # {} /\ ~dry THEN Append(deleted, episode_idx) ELSE deleted

\* line 104: blacklisted episodes whose shard exists in the source
ExistingEpisodes(dir, blacklist) ==
    Len(SelectSeq(blacklist, LAMBDA ep : dir.shard[Fmt06d(ep)] # NoFile))

EmptyReport ==
    [deletions |-> {}, notfound |-> {}, renames |-> {}, removed |-> -1]

----------------------------------------------------------------------------
(* _renumber_episodes_and_update_metadata, lines 110-187 *)

\* variant: the remaining episodes keep their load order
RemainingEpisodesUnsorted(episodes, deleted) ==
    SelectSeq(episodes, LAMBDA e : e.episode_index \notin Range(deleted))

\* lines 118-123
RemainingEpisodes(episodes, deleted) ==
    SortByIndex(SelectSeq(episodes,
                          LAMBDA e : e.episode_index \notin Range(deleted)))

\* lines 126-129: a later assignment to the same key overwrites
OldToNewMapping(remaining) ==
    [old \in {remaining[k].episode_index : k \in DOMAIN remaining} |->
        (CHOOSE k \in DOMAIN remaining :
            /\ remaining[k].episode_index = old
            /\ \A j \in DOMAIN remaining :
                   remaining[j].episode_index = old => j <= k) - 1]

\* variant: the renames are done from the highest old index down
KeyOrderDescending(remaining) ==
    Reverse(SetToSeqAsc({remaining[k].episode_index : k \in DOMAIN remaining}))

\* line 133: dict.items() iterates the keys in order of first insertion
RECURSIVE KeyOrder(_)
KeyOrder(remaining) ==
    IF remaining = <<>> THEN <<>>
    ELSE LET rest == KeyOrder(SubSeq(remaining, 1, Len(remaining) - 1))
             k    == remaining[Len(remaining)].episode_index
         IN  IF k \in Range(rest) THEN rest ELSE Append(rest, k)

\* Path.rename of one entry of a directory listing
Rename(listing, old_idx, new_idx) ==
    IF listing[Fmt06d(old_idx)] # NoFile
    THEN [listing EXCEPT ![Fmt06d(new_idx)] = listing[Fmt06d(old_idx)],
                         ![Fmt06d(old_idx)] = NoFile]
    ELSE listing

\* a rename whose source and destination both exist
Collides(listing, old_idx, new_idx) ==
    /\ old_idx # new_idx
    /\ listing[Fmt06d(old_idx)] # NoFile
    /\ listing[Fmt06d(new_idx)] # NoFile

\* lines 150-154
RenumberedEpisodes(remaining, mapping) ==
    [k \in DOMAIN remaining |->
        [remaining[k] EXCEPT !.episode_index = mapping[@]]]

\* lines 150-159
NewEpisodeMapping(episode_mapping, mapping) ==
    LET olds == {o \in DOMAIN mapping : str(o) \in DOMAIN episode_mapping}
    IN  [key \in {str(mapping[o]) : o \in olds} |->
            episode_mapping[str(CHOOSE o \in olds : str(mapping[o]) = key)]]

\* line 165 raises KeyError for a record that is neither deleted nor mapped
StatsKeyError(stats, deleted, mapping) ==
    \E k \in DOMAIN stats :
        /\ stats[k].episode_index \notin Range(deleted)
        /\ stats[k].episode_index \notin DOMAIN mapping

\* lines 162-171
UpdatedStats(stats, deleted, mapping, nremaining) ==
    LET renumbered ==
            [k \in DOMAIN stats |->
                IF stats[k].episode_index \notin Range(deleted)
                THEN [stats[k] EXCEPT !.episode_index = mapping[@]]
                ELSE stats[k]]
    IN  SelectSeq(renumbered, LAMBDA st : st.episode_index < nremaining)

\* lines 176-184
UpdatedInfo(info, remaining) ==
    IF info # <<>>
    THEN LET i1 == [info[1] EXCEPT !.total_episodes = Len(remaining),
                                   !.total_frames = SumLength(remaining)]
         IN  IF i1.total_episodes > 0
             THEN <<[i1 EXCEPT !.train = i1.total_episodes]>>
             ELSE <<i1>>
    ELSE info
----------------------------------------------------------------------------
(* Initial states: a dataset on disk, no output directory *)

IdxOf(name) == CHOOSE i \in Idx : Fmt06d(i) = name

EpisodeRecord(i) == [episode_index |-> i, length |-> FrameCount(i)]
StatRecord(i)    == [episode_index |-> i, payload |-> i]

\* the dataset whose episode list holds the indices of order (a sequence
\* without repetition), with blacklist B, shards at S, media directories at
\* M, statistics records for T, mapping keys for K
Dataset(order, B, S, M, T, K, withInfo) ==
    LET episodes == [k \in DOMAIN order |-> EpisodeRecord(order[k])]
        statIdx  == SetToSeqAsc(T)
    IN  [exists |-> TRUE,
         shard  |-> [n \in Names |-> IF IdxOf(n) \in S THEN IdxOf(n) ELSE NoFile],
         media  |-> [n \in Names |-> IF IdxOf(n) \in M THEN IdxOf(n) ELSE NoFile],
         meta   |->
            [blacklist |-> SetToSeqAsc(B),
             episodes  |-> episodes,
             stats     |-> [k \in DOMAIN statIdx |-> StatRecord(statIdx[k])],
             episode_mapping |->
                [key \in {str(i) : i \in K} |->
                    CHOOSE i \in K : str(i) = key],
             info |-> IF withInfo
                      THEN <<[total_episodes |-> Len(episodes),
                              total_frames   |-> SumLength(episodes),
                              train          |-> Len(episodes)]>>
                      ELSE <<>>]]

\* the episode list is loaded in ascending or in descending index order
Orders(E) == {SetToSeqAsc(E), Reverse(SetToSeqAsc(E))}

\* the dataset directory is d and there is no output directory
OnDisk(d) == fs = [dataset_path |-> d, output_path |-> AbsentDir]

\* well-formed tables, any artifacts on disk
FileDataset ==
    \E E \in SUBSET Idx, B \in SUBSET Idx, S \in SUBSET Idx :
    \E order \in Orders(E) :
    \E D \in {x \in SUBSET Idx : Cardinality(x) <= MaxMediaDiff} :
        OnDisk(Dataset(order, B, S, (S \ D) \cup (D \ S), E, E, TRUE))

\* both artifacts for every listed episode, any statistics and mapping tables
MetaDataset ==
    \E E \in SUBSET Idx, B \in SUBSET Idx, K \in SUBSET Idx :
    \E order \in Orders(E), withInfo \in BOOLEAN :
    \E X \in {x \in SUBSET Idx : Cardinality(x) <= MaxStale} :
        OnDisk(Dataset(order, B, E, E, E \cup X, K, withInfo))

Init ==
    /\ \/ OnDisk(AbsentDir)
       \/ FileDataset
       \/ MetaDataset
    /\ pc = "idle"
    /\ dry_run = FALSE
    /\ meta_manager = EmptyMeta
    /\ bi = 0
    /\ deleted_episodes = <<>>
    /\ remaining_episodes = <<>>
    /\ old_to_new_mapping = <<>>
    /\ ri = 0
    /\ error = None
    /\ report = EmptyReport
    /\ lastDry = <<>>

----------------------------------------------------------------------------
(* Actions *)

\* lines 25-62: the checks, the load and the copy
Call(d) ==
    /\ pc = "idle"
    /\ dry_run' = d
    /\ UNCHANGED <<bi, deleted_episodes, remaining_episodes,
                   old_to_new_mapping, ri, report, lastDry>>
    /\ IF ~fs.dataset_path.exists
       THEN /\ pc' = "failed" /\ error' = "FileNotFoundError"
            /\ UNCHANGED <<fs, meta_manager>>
       ELSE IF fs.output_path.exists
       THEN /\ pc' = "failed" /\ error' = "FileExistsError"
            /\ UNCHANGED <<fs, meta_manager>>
       ELSE LET mm == load_from_files(fs.dataset_path)
            IN  /\ meta_manager' = mm
                /\ error' = None
                /\ fs' = IF ~d
                         THEN [fs EXCEPT !.output_path = copytree(fs.dataset_path)]
                         ELSE fs
                /\ pc' = IF mm.blacklist = <<>> THEN "done" ELSE "delete"

\* lines 66-95: one iteration of the loop over the blacklist
DeleteStep ==
    /\ pc = "delete"
    /\ bi < Len(meta_manager.blacklist)
    /\ LET episode_idx == meta_manager.blacklist[bi + 1]
           wp    == WorkingPath(dry_run)
           files == FilesToDelete(fs[wp], episode_idx)
       IN  /\ fs' = [fs EXCEPT ![wp] =
                        IF files # {}
                        THEN DeleteArtifacts(fs[wp], episode_idx, dry_run)
                        ELSE fs[wp]]
           /\ deleted_episodes' =
                  DeletedAfter(deleted_episodes, episode_idx, files, dry_run)
           /\ report' =
                  IF files # {}
                  THEN [report EXCEPT !.deletions =
                           @ \cup {<<kind, Fmt06d(episode_idx)>> : kind \in files}]
                  ELSE [report EXCEPT !.notfound = @ \cup {episode_idx}]
    /\ bi' = bi + 1
    /\ UNCHANGED <<pc, dry_run, meta_manager, remaining_episodes,
                   old_to_new_mapping, ri, error, lastDry>>

\* lines 103-107: the closing line of a dry run
DryRunComplete ==
    /\ pc = "delete"
    /\ bi = Len(meta_manager.blacklist)
    /\ dry_run
    /\ report' = [report EXCEPT !.removed =
                     ExistingEpisodes(fs.dataset_path, meta_manager.blacklist)]
    /\ pc' = "done"
    /\ UNCHANGED <<fs, dry_run, meta_manager, bi, deleted_episodes,
                   remaining_episodes, old_to_new_mapping, ri, error, lastDry>>

\* line 97 with no episode deleted: the function returns
NothingDeleted ==
    /\ pc = "delete"
    /\ bi = Len(meta_manager.blacklist)
    /\ ~dry_run
    /\ deleted_episodes = <<>>
    /\ pc' = "done"
    /\ UNCHANGED <<fs, dry_run, meta_manager, bi, deleted_episodes,
                   remaining_episodes, old_to_new_mapping, ri, error, report,
                   lastDry>>

\* lines 97-98 and 117-129: the call of the renumbering and its plan
PlanRenumber ==
    /\ pc = "delete"
    /\ bi = Len(meta_manager.blacklist)
    /\ ~dry_run
    /\ deleted_episodes # <<>>
    /\ LET remaining ==
               RemainingEpisodes(meta_manager.episodes, deleted_episodes)
       IN  /\ remaining_episodes' = remaining
           /\ old_to_new_mapping' = OldToNewMapping(remaining)
    /\ ri' = 0
    /\ pc' = "rename"
    /\ UNCHANGED <<fs, dry_run, meta_manager, bi, deleted_episodes, error,
                   report, lastDry>>

\* lines 133-147: one iteration of the loop over the mapping; a destination
\* that exists is replaced (a file, or an empty directory, on POSIX)
RenameStep ==
    /\ pc = "rename"
    /\ ri < Len(KeyOrder(remaining_episodes))
    /\ LET old_idx == KeyOrder(remaining_episodes)[ri + 1]
           new_idx == old_to_new_mapping[old_idx]
           wp      == WorkingPath(dry_run)
           dir     == fs[wp]
       IN  IF old_idx # new_idx
           THEN /\ fs' = [fs EXCEPT
                            ![wp].shard = Rename(dir.shard, old_idx, new_idx),
                            ![wp].media = Rename(dir.media, old_idx, new_idx)]
                /\ report' = [report EXCEPT !.renames = @ \cup
                      {<<kind, Fmt06d(old_idx), Fmt06d(new_idx)>> :
                          kind \in FilesToDelete(dir, old_idx)}]
           ELSE UNCHANGED <<fs, report>>
    /\ ri' = ri + 1
    /\ UNCHANGED <<pc, dry_run, meta_manager, bi, deleted_episodes,
                   remaining_episodes, old_to_new_mapping, error, lastDry>>

\* lines 139 and 146: Path.rename raises when the destination exists and
\* cannot be replaced (any destination on Windows, a non-empty directory on
\* POSIX); the shard is renamed before the media directory is tried
RenameError(stage) ==
    /\ pc = "rename"
    /\ ri < Len(KeyOrder(remaining_episodes))
    /\ LET old_idx == KeyOrder(remaining_episodes)[ri + 1]
           new_idx == old_to_new_mapping[old_idx]
           wp      == WorkingPath(dry_run)
           dir     == fs[wp]
       IN  \/ /\ stage = "shard"
              /\ Collides(dir.shard, old_idx, new_idx)
              /\ UNCHANGED <<fs, report>>
           \/ /\ stage = "media"
              /\ Collides(dir.media, old_idx, new_idx)
              /\ fs' = [fs EXCEPT
                          ![wp].shard = Rename(dir.shard, old_idx, new_idx)]
              /\ report' = [report EXCEPT !.renames = @ \cup
                    {<<kind, Fmt06d(old_idx), Fmt06d(new_idx)>> :
                        kind \in FilesToDelete(dir, old_idx) \cap {"shard"}}]
    /\ pc' = "failed"
    /\ error' = "OSError"
    /\ UNCHANGED <<dry_run, meta_manager, bi, deleted_episodes,
                   remaining_episodes, old_to_new_mapping, ri, lastDry>>

\* lines 150-187 and 99-101: the tables are rewritten and saved, unless the
\* statistics loop raises KeyError (the episode records are renumbered in
\* place before it)
UpdateMetadata ==
    /\ pc = "rename"
    /\ ri = Len(KeyOrder(remaining_episodes))
    /\ LET wp == WorkingPath(dry_run)
           renumbered ==
               RenumberedEpisodes(remaining_episodes, old_to_new_mapping)
       IN  IF StatsKeyError(meta_manager.stats, deleted_episodes,
                            old_to_new_mapping)
           THEN /\ pc' = "failed"
                /\ error' = "KeyError"
                /\ UNCHANGED <<fs, meta_manager, report>>
           ELSE LET mm ==
                      [blacklist |-> <<>>,
                       episodes  |-> renumbered,
                       stats     |-> UpdatedStats(meta_manager.stats,
                                                  deleted_episodes,
                                                  old_to_new_mapping,
                                                  Len(remaining_episodes)),
                       episode_mapping |->
                           NewEpisodeMapping(meta_manager.episode_mapping,
                                             old_to_new_mapping),
                       info |-> UpdatedInfo(meta_manager.info, renumbered)]
                IN  /\ meta_manager' = mm
                    /\ fs' = [fs EXCEPT ![wp] = save(fs[wp], mm)]
                    /\ report' = [report EXCEPT
                                    !.removed = Len(deleted_episodes)]
                    /\ pc' = "done"
                    /\ error' = None
    /\ UNCHANGED <<dry_run, bi, deleted_episodes, remaining_episodes,
                   old_to_new_mapping, ri, lastDry>>

\* the call is over: its locals are gone; the report of a completed dry run
\* stays on the console
Return ==
    /\ pc \in {"done", "failed"}
    /\ lastDry' = IF pc = "done" /\ dry_run THEN <<report>> ELSE lastDry
    /\ pc' = "idle"
    /\ dry_run' = FALSE
    /\ meta_manager' = EmptyMeta
    /\ bi' = 0
    /\ deleted_episodes' = <<>>
    /\ remaining_episodes' = <<>>
    /\ old_to_new_mapping' = <<>>
    /\ ri' = 0
    /\ error' = None
    /\ report' = EmptyReport
    /\ UNCHANGED fs

Next ==
    \/ \E d \in BOOLEAN : Call(d)
    \/ DeleteStep
    \/ DryRunComplete
    \/ NothingDeleted
    \/ PlanRenumber
    \/ RenameStep
    \/ \E stage \in {"shard", "media"} : RenameError(stage)
    \/ UpdateMetadata
    \/ Return

Spec == Init /\ [][Next]_vars
----------------------------------------------------------------------------
(* Properties *)

src == fs.dataset_path
out == fs.output_path

LiveDone  == pc = "done" /\ ~dry_run
\* a live call that renumbered and saved
Compacted == LiveDone /\ deleted_episodes # <<>>

IndexSeq(recs) == [k \in DOMAIN recs |-> recs[k].episode_index]
Distinct(s) == \A j, k \in DOMAIN s : s[j] = s[k] => j = k
Listed == Range(IndexSeq(src.meta.episodes))
Blacklisted == Range(src.meta.blacklist)
\* the index an episode record was ingested with
IngestedAs(e) == CHOOSE i \in Idx : FrameCount(i) = e.length

\* C1: after a live call that compacted a dataset whose episode records have
\* distinct indices, the saved episode list carries exactly the indices
\* 0 .. total_episodes-1, each once, and the old->new mapping preserves order.
C1_DenseOrderPreserving ==
    (Compacted /\ Distinct(IndexSeq(src.meta.episodes))) =>
        LET saved == IndexSeq(out.meta.episodes)
            n     == Len(saved)
        IN  /\ Range(saved) = 0 .. (n - 1)
            /\ Distinct(saved)
            /\ out.meta.info # <<>> => out.meta.info[1].total_episodes = n
            /\ \A k \in DOMAIN saved :
                   saved[k] =
                     old_to_new_mapping[IngestedAs(out.meta.episodes[k])]
            /\ \A i, j \in DOMAIN old_to_new_mapping :
                   i < j => old_to_new_mapping[i] < old_to_new_mapping[j]

C1_Witness ==
    /\ Compacted
    /\ Len(out.meta.episodes) >= 2
    /\ src.meta.episodes[1].episode_index > src.meta.episodes[2].episode_index
    /\ \E i \in DOMAIN old_to_new_mapping : old_to_new_mapping[i] # i

\* C2: after a compaction the saved total_frames is the sum of length over
\* the episodes whose original index was not in the blacklist.
C2_Conservation ==
    (Compacted /\ out.meta.info # <<>>) =>
        out.meta.info[1].total_frames =
            SumLength(SelectSeq(src.meta.episodes,
                        LAMBDA e : e.episode_index \notin Blacklisted))

\* C3: after a live compaction of a dataset with one statistics record per
\* episode, the saved statistics hold one record per surviving episode, no
\* record of a removed episode, and no two records with the same index.
C3_StatsOnePerSurvivor ==
    (Compacted /\ IndexSeq(src.meta.stats) = SetToSeqAsc(Listed)) =>
        /\ Range(IndexSeq(out.meta.stats)) = Range(IndexSeq(out.meta.episodes))
        /\ Distinct(IndexSeq(out.meta.stats))
        /\ \A k \in DOMAIN out.meta.stats :
               out.meta.stats[k].payload \notin Range(deleted_episodes)

\* C4: in a live run a blacklisted index with neither shard nor media
\* directory is not counted in deleted_episodes but is removed from the saved
\* episode list, statistics, mapping and blacklist.
C4_AbsentStillRemoved ==
    LiveDone =>
        \A b \in Blacklisted :
            FilesToDelete(src, b) = {} =>
                /\ b \notin Range(deleted_episodes)
                /\ b \notin Range(out.meta.blacklist)
                /\ \A k \in DOMAIN out.meta.episodes :
                       IngestedAs(out.meta.episodes[k]) # b
                /\ \A k \in DOMAIN out.meta.stats :
                       out.meta.stats[k].payload # b
                /\ \A key \in DOMAIN out.meta.episode_mapping :
                       out.meta.episode_mapping[key] # b

\* C5: after a live compaction, the shard and the media directory a
\* surviving episode had before the run are the ones found at the paths of
\* its new index.
C5_ArtifactsFollowIndex ==
    Compacted =>
        \A old \in DOMAIN old_to_new_mapping :
            LET new == old_to_new_mapping[old]
            IN  /\ src.shard[Fmt06d(old)] # NoFile =>
                       out.shard[Fmt06d(new)] = src.shard[Fmt06d(old)]
                /\ src.media[Fmt06d(old)] # NoFile =>
                       out.media[Fmt06d(new)] = src.media[Fmt06d(old)]

C5_Witness ==
    /\ Compacted
    /\ \E old \in DOMAIN old_to_new_mapping :
          /\ old_to_new_mapping[old] # old
          /\ src.shard[Fmt06d(old)] # NoFile
          /\ src.media[Fmt06d(old)] # NoFile
          /\ \E other \in DOMAIN old_to_new_mapping :
                /\ other = old_to_new_mapping[old]
                /\ src.shard[Fmt06d(other)] # NoFile

\* the renames of a listing done one after the other; FALSE as soon as one
\* of them finds its destination present
RECURSIVE RenamesCollisionFree(_, _, _)
RenamesCollisionFree(listing, keys, mapping) ==
    IF keys = <<>> THEN TRUE
    ELSE LET old_idx == Head(keys)
             new_idx == mapping[old_idx]
         IN  /\ ~Collides(listing, old_idx, new_idx)
             /\ RenamesCollisionFree(
                    IF old_idx # new_idx
                    THEN Rename(listing, old_idx, new_idx) ELSE listing,
                    Tail(keys), mapping)

\* no artifact recorded for a blacklisted index is left in the copy
DeletionsApplied ==
    \A n \in Names :
        /\ out.shard[n] \notin Blacklisted
        /\ out.media[n] \notin Blacklisted

\* C6 as stated: the deletions are applied before the first rename, and from
\* there the renames of the plan, done one after the other in any order,
\* never find their destination present.
C6_AnyOrderNoCollision ==
    (pc = "rename" /\ ri = 0) =>
        /\ DeletionsApplied
        /\ LET keys == KeyOrder(remaining_episodes)
           IN  \A p \in Permutations(DOMAIN keys) :
                   LET order == [k \in DOMAIN keys |-> keys[p[k]]]
                   IN  /\ RenamesCollisionFree(out.shard, order,
                                               old_to_new_mapping)
                       /\ RenamesCollisionFree(out.media, order,
                                               old_to_new_mapping)

\* C6, amended: the deletions are applied before the first rename, and the
\* renames, done in ascending order of old index, never find at their
\* destination an artifact of an episode of the episode list.
C6_AscendingNoSurvivorCollision ==
    pc = "rename" =>
        /\ DeletionsApplied
        /\ ri < Len(KeyOrder(remaining_episodes)) =>
              LET old_idx == KeyOrder(remaining_episodes)[ri + 1]
                  new_idx == old_to_new_mapping[old_idx]
              IN  /\ KeyOrder(remaining_episodes) =
                        SetToSeqAsc(DOMAIN old_to_new_mapping)
                  /\ Collides(out.shard, old_idx, new_idx) =>
                        out.shard[Fmt06d(new_idx)] \notin Listed
                  /\ Collides(out.media, old_idx, new_idx) =>
                        out.media[Fmt06d(new_idx)] \notin Listed

\* a rename into the slot a surviving episode has just been renamed out of
C6_Witness ==
    /\ pc = "rename"
    /\ ri > 0
    /\ ri < Len(KeyOrder(remaining_episodes))
    /\ report.renames # {}
    /\ LET old_idx == KeyOrder(remaining_episodes)[ri + 1]
           new_idx == old_to_new_mapping[old_idx]
       IN  /\ old_idx # new_idx
           /\ out.shard[Fmt06d(old_idx)] # NoFile
           /\ src.shard[Fmt06d(new_idx)] \in Listed \ Blacklisted
           /\ out.shard[Fmt06d(new_idx)] = NoFile

\* C7: no step of a dry run changes the source dataset or creates the
\* output path.
C7_DryRunPurity == [][dry_run' => fs' = fs]_vars

C7_Witness ==
    /\ pc = "done"
    /\ dry_run
    /\ report.deletions # {}
    /\ \E i \in Listed \ Blacklisted : \E b \in Blacklisted : b < i

\* C8: no step changes the source dataset; a call that finds the output path
\* fails with FileExistsError and changes nothing; a live call first makes
\* the output a full copy of the source.
C8_SourceUntouched ==
    [][/\ fs'.dataset_path = fs.dataset_path
       /\ (pc = "idle" /\ src.exists /\ out.exists) =>
             (pc' = "failed" /\ error' = "FileExistsError" /\ fs' = fs)
       /\ (pc = "idle" /\ src.exists /\ ~out.exists /\ ~dry_run') =>
             fs'.output_path = fs.dataset_path]_vars

\* a call fails on the output path left by an earlier call that deleted,
\* renamed and saved in the copy
C8_Witness ==
    /\ pc = "failed"
    /\ error = "FileExistsError"
    /\ out.meta # src.meta
    /\ out.shard # src.shard

\* an index of the statistics or of the mapping that is neither listed nor
\* blacklisted
StaleStats == Range(IndexSeq(src.meta.stats)) \ (Listed \cup Blacklisted)
StaleKeys ==
    {i \in Idx : str(i) \in DOMAIN src.meta.episode_mapping}
        \ (Listed \cup Blacklisted)

\* C9: a compaction of tables with a stale statistics or mapping entry
\* completes, and the saved tables do not hold the stale entry.
C9_StaleDropped ==
    (~dry_run /\ deleted_episodes # <<>>
              /\ (StaleStats # {} \/ StaleKeys # {})) =>
        /\ pc = "failed" => error # "KeyError"
        /\ pc = "done" =>
              /\ \A k \in DOMAIN out.meta.stats :
                     out.meta.stats[k].payload \notin StaleStats
              /\ \A key \in DOMAIN out.meta.episode_mapping :
                     out.meta.episode_mapping[key] \notin StaleKeys

\* C10: a live run performs the deletions and renames, and removes the
\* number of episodes, that a dry run on the same dataset reported.
C10_DryRunReportsLive ==
    (LiveDone /\ lastDry # <<>> /\ Blacklisted # {}) =>
        /\ lastDry[1].deletions = report.deletions
        /\ lastDry[1].renames = report.renames
        /\ lastDry[1].removed = Len(deleted_episodes)
====
